---- MODULE Spec2Model ----
(***************************************************************************)
(* Model of the relabs-tech/devices magnetometer drivers.                   *)
(*                                                                         *)
(* mpu9250: the AK8963 magnetometer reached through the MPU9250 I2C        *)
(* master.  The configuration validators are the Go functions of           *)
(* mpu9250/MAG_README.md section 6; the initialization sequence is the     *)
(* seven-step "Go Fixed Sequence" of section 9.3 of the same file.         *)
(***************************************************************************)
EXTENDS Integers, Sequences, FiniteSets, TLC

VARIABLES
    cfg,        \* config.Config: the magnetometer fields of the loaded configuration
    resolved,   \* "pending" | "ok" | "ConfigError": outcome of the validation
                \* ("absent": the process has no MPU9250 session)
    configErr,  \* the message of the validation error, "nil" when none
    warnings,   \* the set of warnings logged by the validators
    eff,        \* the parameters handed to InitMag (NoParams until resolved)
    seq,        \* state of the initialization sequencer
    visited,    \* sequencer states entered during the current run, in order
    log,        \* transport operations (with the transport's answer) and settle
                \* waits of the current run, in order
    initErr,    \* error returned by the current run of InitMag (NoErr when none)
    trim,       \* the three ASA bytes read by the current run (NoTrim before)
    cal,        \* the MagCal returned by the current run (NoCal when none)
    heap,       \* the MagCal objects allocated so far; an address is an index
    store,      \* the *MagCal kept by the owner of the device
                \* (IMUManager.leftMagCal): an address of heap, Nil before
    runs,       \* number of InitMag calls made so far
    prev,       \* how the previous run of InitMag ended (NoRun before the second call)
    rd,         \* the calibration read in progress (NoRead when none)
    reply,      \* the answer to the last completed request (NoReply before)
    fin,        \* the function applied on its own and its arguments (NoInput when none)
    fout,       \* the result of that application (NoOutput before)
    hOpts,      \* hmc5983: the Opts given to New (NoOpts when there is no HMC5983)
    hDev,       \* hmc5983: the Dev returned by New (NoDev before, and when New failed)
    hBus,       \* hmc5983: the bus transactions of the last call, in order
    hRet,       \* hmc5983: what the last call returned (NoRet before the first)
    mgr         \* the IMUManager with its left and right IMU (NoMgr when the
                \* process has none)

\* The session of the MPU9250 magnetometer and the requests made to it.
mpuVars == <<cfg, resolved, configErr, warnings, eff, seq, visited, log,
             initErr, trim, cal, heap, store, runs, prev>>
apiVars == <<rd, reply>>

\* A function of the drivers applied on its own.
pureVars == <<fin, fout>>

\* The HMC5983 driver.
hmcVars == <<hOpts, hDev, hBus, hRet>>

\* What an action of the MPU9250 session leaves alone.
otherVars == <<pureVars, hmcVars, mgr>>

vars == <<mpuVars, apiVars, otherVars>>

----------------------------------------------------------------------------
(* Bounds of the model. *)

\* Number of InitMag calls (first initialization plus reinitializations).
MaxRuns == 2

----------------------------------------------------------------------------
(* Input domains. *)

\* Scenario A of the configuration file: MAG_WRITE_DELAY_MS=50, MAG_READ_DELAY_MS=2,
\* MAG_SCALE=1, MAG_MODE=0x06, MAG_SAMPLE_RATE_DIVIDER=1, no debug override.
DefaultConfig ==
    [MagWriteDelayMS |-> 50, MagReadDelayMS |-> 2, MagScale |-> 1, MagMode |-> 6,
     MagSampleRateDivider |-> 1,
     RegisterDebugMagWriteDelay |-> -1, RegisterDebugMagReadDelay |-> -1,
     RegisterDebugMagUnsafeMode |-> FALSE]

WriteDelayInputs == {0, 1, 49, 50, 200, 201}
ReadDelayInputs == {0, 1, 50, 51}
ScaleInputs == {0, 1, 2, 255}
ModeInputs == {0, 1, 2, 3, 4, 6, 8, 15, 16}
DividerInputs == {15, 16}
DebugWriteDelayInputs == {-1, 0, 1, 49, 50, 500, 501}
DebugReadDelayInputs == {-1, 0, 100, 101}

\* Standard parameter sets without a debug override.
StandardConfigs ==
    {[DefaultConfig EXCEPT !.MagWriteDelayMS = w, !.MagReadDelayMS = r,
                           !.MagScale = s, !.MagMode = m,
                           !.MagSampleRateDivider = d] :
        w \in WriteDelayInputs, r \in ReadDelayInputs, s \in ScaleInputs,
        m \in ModeInputs, d \in DividerInputs}

\* Parameter sets with the register-debug fields varied.
DebugConfigs ==
    {[DefaultConfig EXCEPT !.MagWriteDelayMS = w,
                           !.RegisterDebugMagWriteDelay = dw,
                           !.RegisterDebugMagReadDelay = dr,
                           !.RegisterDebugMagUnsafeMode = u] :
        w \in {0, 10, 50}, dw \in DebugWriteDelayInputs,
        dr \in DebugReadDelayInputs, u \in BOOLEAN}

ConfigInputs == StandardConfigs \cup DebugConfigs

\* ASA byte triples the fuse ROM may hold.
TrimInputs == {<<128, 128, 128>>, <<0, 255, 128>>, <<255, 1, 0>>}

\* Failures the transport may report.
TransportErrors == {"NACK", "timeout"}

NoParams == [none |-> TRUE]
NoErr == [step |-> "none", cause |-> "none"]
NoTrim == <<>>
NoCal == [none |-> TRUE]
NoRun == [seq |-> "none", step |-> "none"]

\* The nil *MagCal.
Nil == 0

NoInput == [f |-> "none", a |-> <<>>]
NoOutput == <<>>

NoOpts == [none |-> TRUE]
NoDev == [none |-> TRUE]
NoRet == [fn |-> "none", vals |-> <<>>, err |-> "nil"]
NoMgr == [none |-> TRUE]

NoRead == [ptr |-> Nil, at |-> "none", got |-> <<>>]
NoReply == [req |-> "none", at |-> "none", res |-> "none", val |-> <<>>, ops |-> 0,
            over |-> FALSE, tx |-> "none"]

\* The condition reported to a request the session cannot serve.
NotInitialized == "not initialized"

\* Configurations of the sessions that serve requests: scenario A, a 14-bit
\* 8 Hz set with the shortest delays, a set with the longest debug overrides
\* and a set the resolver rejects.
SessionConfigs ==
    {DefaultConfig,
     [DefaultConfig EXCEPT !.MagWriteDelayMS = 1, !.MagReadDelayMS = 1,
                           !.MagScale = 0, !.MagMode = 2],
     [DefaultConfig EXCEPT !.RegisterDebugMagWriteDelay = 500,
                           !.RegisterDebugMagReadDelay = 100],
     [DefaultConfig EXCEPT !.MagMode = 3]}

\* Raw samples (x, y, z counts) and status bytes the sensor may deliver.
RawSamples == {<<0, 0, 0>>, <<32767, -32768, 1>>, <<0, 100, -100>>}
StatusInputs == {0, 1, 8}

----------------------------------------------------------------------------
(* Configuration validation (MAG_README.md section 6). *)

ValidModes == {0, 1, 2, 6, 4, 8, 15}

\* The modes that measure continuously: 0x02 (8 Hz) and 0x06 (100 Hz).
ContinuousModes == {2, 6}

\* Variants of validateMagConfig with one check changed.
validateMagConfig_NoDivider(c) ==
    IF c.MagWriteDelayMS < 1 \/ c.MagWriteDelayMS > 200
    THEN [err |-> "MAG_WRITE_DELAY_MS", warn |-> {}]
    ELSE LET w == IF c.MagWriteDelayMS < 50 THEN {"write delay below 50ms"} ELSE {}
         IN  IF c.MagReadDelayMS < 1 \/ c.MagReadDelayMS > 50
             THEN [err |-> "MAG_READ_DELAY_MS", warn |-> w]
             ELSE IF c.MagScale > 1
             THEN [err |-> "MAG_SCALE", warn |-> w]
             ELSE IF c.MagMode \notin ValidModes
             THEN [err |-> "MAG_MODE", warn |-> w]
             ELSE [err |-> "nil", warn |-> w]

validateMagConfig_ModeRange(c) ==
    IF c.MagWriteDelayMS < 1 \/ c.MagWriteDelayMS > 200
    THEN [err |-> "MAG_WRITE_DELAY_MS", warn |-> {}]
    ELSE LET w == IF c.MagWriteDelayMS < 50 THEN {"write delay below 50ms"} ELSE {}
         IN  IF c.MagReadDelayMS < 1 \/ c.MagReadDelayMS > 50
             THEN [err |-> "MAG_READ_DELAY_MS", warn |-> w]
             ELSE IF c.MagScale > 1
             THEN [err |-> "MAG_SCALE", warn |-> w]
             ELSE IF c.MagMode > 15
             THEN [err |-> "MAG_MODE", warn |-> w]
             ELSE IF c.MagSampleRateDivider > 15
             THEN [err |-> "MAG_SAMPLE_RATE_DIVIDER", warn |-> w]
             ELSE [err |-> "nil", warn |-> w]

validateMagConfig_NoLower(c) ==
    IF c.MagWriteDelayMS > 200
    THEN [err |-> "MAG_WRITE_DELAY_MS", warn |-> {}]
    ELSE LET w == IF c.MagWriteDelayMS < 50 THEN {"write delay below 50ms"} ELSE {}
         IN  IF c.MagReadDelayMS < 1 \/ c.MagReadDelayMS > 50
             THEN [err |-> "MAG_READ_DELAY_MS", warn |-> w]
             ELSE IF c.MagScale > 1
             THEN [err |-> "MAG_SCALE", warn |-> w]
             ELSE IF c.MagMode \notin ValidModes
             THEN [err |-> "MAG_MODE", warn |-> w]
             ELSE IF c.MagSampleRateDivider > 15
             THEN [err |-> "MAG_SAMPLE_RATE_DIVIDER", warn |-> w]
             ELSE [err |-> "nil", warn |-> w]

validateMagConfig_Floor50(c) ==
    IF c.MagWriteDelayMS < 50 \/ c.MagWriteDelayMS > 200
    THEN [err |-> "MAG_WRITE_DELAY_MS", warn |-> {}]
    ELSE IF c.MagReadDelayMS < 1 \/ c.MagReadDelayMS > 50
    THEN [err |-> "MAG_READ_DELAY_MS", warn |-> {}]
    ELSE IF c.MagScale > 1
    THEN [err |-> "MAG_SCALE", warn |-> {}]
    ELSE IF c.MagMode \notin ValidModes
    THEN [err |-> "MAG_MODE", warn |-> {}]
    ELSE IF c.MagSampleRateDivider > 15
    THEN [err |-> "MAG_SAMPLE_RATE_DIVIDER", warn |-> {}]
    ELSE [err |-> "nil", warn |-> {}]

\* validateMagConfig: the first failing check decides the error; the warning
\* about a write delay under 50 ms is logged before the later checks run.
validateMagConfig(c) ==
    IF c.MagWriteDelayMS < 1 \/ c.MagWriteDelayMS > 200
    THEN [err |-> "MAG_WRITE_DELAY_MS", warn |-> {}]
    ELSE LET w == IF c.MagWriteDelayMS < 50 THEN {"write delay below 50ms"} ELSE {}
         IN  IF c.MagReadDelayMS < 1 \/ c.MagReadDelayMS > 50
             THEN [err |-> "MAG_READ_DELAY_MS", warn |-> w]
             ELSE IF c.MagScale > 1
             THEN [err |-> "MAG_SCALE", warn |-> w]
             ELSE IF c.MagMode \notin ValidModes
             THEN [err |-> "MAG_MODE", warn |-> w]
             ELSE IF c.MagSampleRateDivider > 15
             THEN [err |-> "MAG_SAMPLE_RATE_DIVIDER", warn |-> w]
             ELSE [err |-> "nil", warn |-> w]

\* Variant of validateRegisterDebugMagConfig without the unsafe-mode check.
validateRegisterDebugMagConfig_NoUnsafeCheck(c) ==
    LET w == IF c.RegisterDebugMagUnsafeMode THEN {"unsafe mode"} ELSE {}
    IN  IF /\ c.RegisterDebugMagWriteDelay > 0
           /\ (c.RegisterDebugMagWriteDelay < 1 \/ c.RegisterDebugMagWriteDelay > 500)
        THEN [err |-> "REGISTER_DEBUG_MAG_WRITE_DELAY range", warn |-> w]
        ELSE IF /\ c.RegisterDebugMagReadDelay > 0
                /\ (c.RegisterDebugMagReadDelay < 1 \/ c.RegisterDebugMagReadDelay > 100)
        THEN [err |-> "REGISTER_DEBUG_MAG_READ_DELAY range", warn |-> w]
        ELSE [err |-> "nil", warn |-> w]

\* Variant of validateRegisterDebugMagConfig without the range check of the
\* read override.
validateRegisterDebugMagConfig_NoReadRange(c) ==
    LET w == IF c.RegisterDebugMagUnsafeMode THEN {"unsafe mode"} ELSE {}
    IN  IF /\ c.RegisterDebugMagWriteDelay > 0
           /\ (c.RegisterDebugMagWriteDelay < 1 \/ c.RegisterDebugMagWriteDelay > 500)
        THEN [err |-> "REGISTER_DEBUG_MAG_WRITE_DELAY range", warn |-> w]
        ELSE IF /\ c.RegisterDebugMagWriteDelay > 0
                /\ c.RegisterDebugMagWriteDelay < 50
                /\ ~c.RegisterDebugMagUnsafeMode
        THEN [err |-> "REGISTER_DEBUG_MAG_WRITE_DELAY unsafe", warn |-> w]
        ELSE [err |-> "nil", warn |-> w]

\* validateRegisterDebugMagConfig: an override delay is "set" when it is > 0.
validateRegisterDebugMagConfig(c) ==
    LET w == IF c.RegisterDebugMagUnsafeMode THEN {"unsafe mode"} ELSE {}
    IN  IF /\ c.RegisterDebugMagWriteDelay > 0
           /\ (c.RegisterDebugMagWriteDelay < 1 \/ c.RegisterDebugMagWriteDelay > 500)
        THEN [err |-> "REGISTER_DEBUG_MAG_WRITE_DELAY range", warn |-> w]
        ELSE IF /\ c.RegisterDebugMagWriteDelay > 0
                /\ c.RegisterDebugMagWriteDelay < 50
                /\ ~c.RegisterDebugMagUnsafeMode
        THEN [err |-> "REGISTER_DEBUG_MAG_WRITE_DELAY unsafe", warn |-> w]
        ELSE IF /\ c.RegisterDebugMagReadDelay > 0
                /\ (c.RegisterDebugMagReadDelay < 1 \/ c.RegisterDebugMagReadDelay > 100)
        THEN [err |-> "REGISTER_DEBUG_MAG_READ_DELAY range", warn |-> w]
        ELSE [err |-> "nil", warn |-> w]

\* Variant: the override may lengthen the write delay but never shorten it.
EffWriteDelay_NeverShorter(c) ==
    IF c.RegisterDebugMagWriteDelay > c.MagWriteDelayMS
    THEN c.RegisterDebugMagWriteDelay
    ELSE c.MagWriteDelayMS

\* Register debug tool: the override write delay replaces the standard one when set.
EffWriteDelay(c) ==
    IF c.RegisterDebugMagWriteDelay > 0
    THEN c.RegisterDebugMagWriteDelay
    ELSE c.MagWriteDelayMS

\* The override read delay replaces the standard one when set (-1 means unset).
EffReadDelay(c) ==
    IF c.RegisterDebugMagReadDelay > 0
    THEN c.RegisterDebugMagReadDelay
    ELSE c.MagReadDelayMS

\* The parameters threaded into InitMag, delays in milliseconds.
EffectiveParameters(c) ==
    [writeDelay |-> EffWriteDelay(c), readDelay |-> EffReadDelay(c),
     scale |-> c.MagScale, mode |-> c.MagMode,
     sampleRateDivider |-> c.MagSampleRateDivider]

\* validateMagParams: the runtime check at the driver boundary.
validateMagParams(p) ==
    IF p.writeDelay < 1 THEN "writeDelay too short"
    ELSE IF p.readDelay < 1 THEN "readDelay too short"
    ELSE IF p.scale > 1 THEN "invalid scale"
    ELSE IF p.mode \notin {0, 1, 2, 4, 6, 8, 15} THEN "invalid mode"
    ELSE "nil"

\* The Resolver: both validators run on the loaded configuration; the first
\* error fails the resolution, otherwise the effective parameters are produced.
ResolveConfig(c) ==
    LET a == validateMagConfig(c)
        b == validateRegisterDebugMagConfig(c)
    IN  IF a.err # "nil"
        THEN [status |-> "ConfigError", err |-> a.err, warn |-> a.warn, params |-> NoParams]
        ELSE IF b.err # "nil"
        THEN [status |-> "ConfigError", err |-> b.err, warn |-> a.warn \cup b.warn,
              params |-> NoParams]
        ELSE [status |-> "ok", err |-> "nil", warn |-> a.warn \cup b.warn,
              params |-> EffectiveParameters(c)]

----------------------------------------------------------------------------
(* The initialization sequencer (InitMag). *)

\* Left shift of a byte: bits shifted out of the 8-bit value are lost.
ShiftLeft8(v, n) == (v * (2 ^ n)) % 256

\* Bitwise OR of two bytes.
RECURSIVE BitOr(_, _)
BitOr(a, b) ==
    IF a = 0 THEN b
    ELSE IF b = 0 THEN a
    ELSE (IF a % 2 = 1 \/ b % 2 = 1 THEN 1 ELSE 0) + 2 * BitOr(a \div 2, b \div 2)

\* The sequence of the driver before the fix: no reset step.
InitSequence_NoReset(p) ==
    << [step |-> "PowerDown1", kind |-> "write", reg |-> "CNTL", val |-> 0, settle |-> "write"],
       [step |-> "FuseMode", kind |-> "write", reg |-> "CNTL", val |-> 15, settle |-> "write"],
       [step |-> "ReadCalibration", kind |-> "read", reg |-> "ASAX", val |-> 3, settle |-> "read"],
       [step |-> "PowerDown2", kind |-> "write", reg |-> "CNTL", val |-> 0, settle |-> "write"],
       [step |-> "SetMode", kind |-> "write", reg |-> "CNTL",
        val |-> BitOr(ShiftLeft8(p.scale, 4), p.mode), settle |-> "write"],
       [step |-> "ConfigureContinuousRead", kind |-> "setup", reg |-> "I2C_SLV0",
        val |-> p.sampleRateDivider, settle |-> "write"] >>

\* Variant: SetMode writes (mode << 4) | scale.
InitSequence_SwappedNibbles(p) ==
    << [step |-> "Reset", kind |-> "write", reg |-> "CNTL2", val |-> 1, settle |-> "write"],
       [step |-> "PowerDown1", kind |-> "write", reg |-> "CNTL", val |-> 0, settle |-> "write"],
       [step |-> "FuseMode", kind |-> "write", reg |-> "CNTL", val |-> 15, settle |-> "write"],
       [step |-> "ReadCalibration", kind |-> "read", reg |-> "ASAX", val |-> 3, settle |-> "read"],
       [step |-> "PowerDown2", kind |-> "write", reg |-> "CNTL", val |-> 0, settle |-> "write"],
       [step |-> "SetMode", kind |-> "write", reg |-> "CNTL",
        val |-> BitOr(ShiftLeft8(p.mode, 4), p.scale), settle |-> "write"],
       [step |-> "ConfigureContinuousRead", kind |-> "setup", reg |-> "I2C_SLV0",
        val |-> p.sampleRateDivider, settle |-> "write"] >>

\* Variant: the measurement mode set directly after the ASA read.
InitSequence_NoPowerDown2(p) ==
    << [step |-> "Reset", kind |-> "write", reg |-> "CNTL2", val |-> 1, settle |-> "write"],
       [step |-> "PowerDown1", kind |-> "write", reg |-> "CNTL", val |-> 0, settle |-> "write"],
       [step |-> "FuseMode", kind |-> "write", reg |-> "CNTL", val |-> 15, settle |-> "write"],
       [step |-> "ReadCalibration", kind |-> "read", reg |-> "ASAX", val |-> 3, settle |-> "read"],
       [step |-> "SetMode", kind |-> "write", reg |-> "CNTL",
        val |-> BitOr(ShiftLeft8(p.scale, 4), p.mode), settle |-> "write"],
       [step |-> "ConfigureContinuousRead", kind |-> "setup", reg |-> "I2C_SLV0",
        val |-> p.sampleRateDivider, settle |-> "write"] >>

\* The fixed sequence: per step the operation on the magnetometer and the
\* settle delay that follows it.  A read carries its length in val.
InitSequence(p) ==
    << [step |-> "Reset", kind |-> "write", reg |-> "CNTL2", val |-> 1, settle |-> "write"],
       [step |-> "PowerDown1", kind |-> "write", reg |-> "CNTL", val |-> 0, settle |-> "write"],
       [step |-> "FuseMode", kind |-> "write", reg |-> "CNTL", val |-> 15, settle |-> "write"],
       [step |-> "ReadCalibration", kind |-> "read", reg |-> "ASAX", val |-> 3, settle |-> "read"],
       [step |-> "PowerDown2", kind |-> "write", reg |-> "CNTL", val |-> 0, settle |-> "write"],
       [step |-> "SetMode", kind |-> "write", reg |-> "CNTL",
        val |-> BitOr(ShiftLeft8(p.scale, 4), p.mode), settle |-> "write"],
       [step |-> "ConfigureContinuousRead", kind |-> "setup", reg |-> "I2C_SLV0",
        val |-> p.sampleRateDivider, settle |-> "write"] >>

StepIndex(S, t) == CHOOSE i \in DOMAIN t : t[i].step = S

\* Variant: PowerDown2 is skipped when the trim bytes just read are the
\* neutral ones.
Successor_SkipOnNeutralTrim(S, t) ==
    IF S = "ReadCalibration" /\ trim' = <<128, 128, 128>> THEN "SetMode"
    ELSE IF StepIndex(S, t) = Len(t) THEN "Ready"
    ELSE t[StepIndex(S, t) + 1].step

\* The state entered when step S has completed.
Successor(S, t) ==
    IF StepIndex(S, t) = Len(t) THEN "Ready" ELSE t[StepIndex(S, t) + 1].step

\* Variant: the write delay after every operation, the read included.
SettleDelay_AllWrite(e, p) == p.writeDelay

\* The settle wait after the operation of table entry e.
SettleDelay(e, p) == IF e.settle = "write" THEN p.writeDelay ELSE p.readDelay

\* Variant: a run after a failure resumes at the step that failed.
StartStep_Resume(e, t) == IF e.step = "none" THEN t[1].step ELSE e.step

\* A run of InitMag begins at the head of the sequence, whatever the
\* previous run (e) did.
StartStep(e, t) == t[1].step

\* Variants: every error labelled as the reset's; the failed step retried.
FailStep_ResetLabel(S, c) == [seq |-> "Failed", err |-> [step |-> "Reset", cause |-> c]]

FailStep_Retry(S, c) == [seq |-> S, err |-> [step |-> S, cause |-> c]]

\* A failed transport operation ends the run: the error names the step and
\* wraps the transport's error; nothing is returned besides the error.
FailStep(S, c) == [seq |-> "Failed", err |-> [step |-> S, cause |-> c]]

\* Variant: the quotient (t - 128)/256 taken in integers, which is 0 for every
\* byte.
Adjustment256_IntegerQuotient(t) == 256

\* Sensitivity adjustment of one axis in units of 1/256: (t - 128)/256 + 1.
Adjustment256(t) == (t - 128) + 256

MagCalOf(b) == [x |-> Adjustment256(b[1]), y |-> Adjustment256(b[2]),
                z |-> Adjustment256(b[3])]

\* Variant: the MagCal is handed out as soon as the trim bytes are read.
Publishes_AtRead(S, n) == S = "ReadCalibration"

\* InitMag returns its MagCal when the step S that completed was the last one
\* (n, the state entered, is Ready).
Publishes(S, n) == n = "Ready"

\* Variant: the owner copies the new values into the MagCal it already holds.
PublishCal_InPlace(h, s, v) ==
    IF s = Nil
    THEN [heap |-> Append(h, v), store |-> Len(h) + 1]
    ELSE [heap |-> [h EXCEPT ![s] = v], store |-> s]

\* A successful InitMag returns a pointer to a new MagCal and the owner assigns
\* the pointer: the MagCal held before is not written.
PublishCal(h, s, v) == [heap |-> Append(h, v), store |-> Len(h) + 1]

----------------------------------------------------------------------------
\* The state after construction, the configuration drawn from C; r is
\* "pending" for a session to be resolved and "absent" when there is none.
MpuStart(C, r) ==
    /\ cfg \in C
    /\ resolved = r
    /\ configErr = "nil"
    /\ warnings = {}
    /\ eff = NoParams
    /\ seq = "Idle"
    /\ visited = <<"Idle">>
    /\ log = <<>>
    /\ initErr = NoErr
    /\ trim = NoTrim
    /\ cal = NoCal
    /\ heap = <<>>
    /\ store = Nil
    /\ runs = 0
    /\ prev = NoRun
    /\ rd = NoRead
    /\ reply = NoReply

\* The session after construction, its configuration drawn from C.
MpuInit(C) == MpuStart(C, "pending")

\* The process drives no MPU9250 (IMUManager.Init: leftIMU is nil): nothing is
\* resolved or initialized.
MpuAbsent == MpuStart({DefaultConfig}, "absent")

\* No function is applied on its own.
PureIdle == fin = NoInput /\ fout = NoOutput

\* The process drives no HMC5983.
HmcAbsent == hOpts = NoOpts /\ hDev = NoDev /\ hBus = <<>> /\ hRet = NoRet

\* The process has no IMUManager.
MgrAbsent == mgr = NoMgr

Init == MpuInit(ConfigInputs) /\ PureIdle /\ HmcAbsent /\ MgrAbsent

\* The configuration is validated once, when it is loaded.
Resolve ==
    /\ resolved = "pending"
    /\ LET r == ResolveConfig(cfg)
       IN  /\ resolved' = r.status
           /\ configErr' = r.err
           /\ warnings' = r.warn
           /\ eff' = r.params
    /\ UNCHANGED <<cfg, seq, visited, log, initErr, trim, cal, heap, store, runs, prev>>
    /\ UNCHANGED <<apiVars, otherVars>>

\* A call of InitMag: the first one, or a fresh run after Ready or Failed.
\* The parameters are checked before the transport is touched.
Initialize ==
    /\ resolved = "ok"
    /\ seq \in {"Idle", "Ready", "Failed"}
    /\ runs < MaxRuns
    /\ IF validateMagParams(eff) # "nil"
       THEN /\ resolved' = "ConfigError"
            /\ configErr' = validateMagParams(eff)
            /\ UNCHANGED <<seq, visited, log, initErr, trim, cal, runs, prev>>
       ELSE /\ seq' = StartStep(initErr, InitSequence(eff))
            /\ visited' = <<"Idle", seq'>>
            /\ log' = <<>>
            /\ initErr' = NoErr
            /\ trim' = NoTrim
            /\ cal' = NoCal
            /\ runs' = runs + 1
            /\ prev' = IF seq = "Idle" THEN prev ELSE [seq |-> seq, step |-> initErr.step]
            /\ UNCHANGED <<resolved, configErr>>
    /\ UNCHANGED <<cfg, warnings, eff, heap, store>>
    /\ UNCHANGED <<apiVars, otherVars>>

\* One step of the sequence: the operation of step S, then its settle wait.
\* The transport may fail the operation; then the run ends without the wait.
DoStep(S) ==
    /\ seq = S
    /\ LET t == InitSequence(eff)
           e == t[StepIndex(S, t)]
           op(r) == [kind |-> e.kind, reg |-> e.reg, val |-> e.val, err |-> r]
           wait == [kind |-> "wait", reg |-> e.settle, val |-> SettleDelay(e, eff),
                    err |-> "nil"]
       IN  \/ /\ IF e.kind = "read"
                 THEN \E b \in TrimInputs : trim' = b
                 ELSE trim' = trim
              /\ log' = log \o <<op("nil"), wait>>
              /\ seq' = Successor(S, t)
              /\ visited' = Append(visited, seq')
              /\ IF Publishes(S, seq')
                 THEN /\ cal' = MagCalOf(trim')
                      /\ heap' = PublishCal(heap, store, cal').heap
                      /\ store' = PublishCal(heap, store, cal').store
                 ELSE UNCHANGED <<cal, heap, store>>
              /\ UNCHANGED initErr
           \/ \E c \in TransportErrors :
                 /\ log' = Append(log, op(c))
                 /\ seq' = FailStep(S, c).seq
                 /\ initErr' = FailStep(S, c).err
                 /\ visited' = Append(visited, seq')
                 /\ UNCHANGED <<trim, cal, heap, store>>
    /\ UNCHANGED <<cfg, resolved, configErr, warnings, eff, runs, prev>>
    /\ UNCHANGED <<apiVars, otherVars>>

StepReset == DoStep("Reset")
StepPowerDown1 == DoStep("PowerDown1")
StepFuseMode == DoStep("FuseMode")
StepReadCalibration == DoStep("ReadCalibration")
StepPowerDown2 == DoStep("PowerDown2")
StepSetMode == DoStep("SetMode")
StepConfigureContinuousRead == DoStep("ConfigureContinuousRead")

Next ==
    \/ Resolve
    \/ Initialize
    \/ StepReset
    \/ StepPowerDown1
    \/ StepFuseMode
    \/ StepReadCalibration
    \/ StepPowerDown2
    \/ StepSetMode
    \/ StepConfigureContinuousRead

Spec == Init /\ [][Next]_vars

----------------------------------------------------------------------------
(* Requests to a session: the Calibration Store and the steady-state reads. *)

\* Division truncating toward zero.
TruncDiv(a, b) == IF a >= 0 THEN a \div b ELSE -((-a) \div b)

\* Gain of the AK8963 in units of 0.05 uT per count: 0.6 uT/LSB in 14-bit
\* resolution (scale 0), 0.15 uT/LSB in 16-bit resolution (scale 1).
GainConstant(scale) == IF scale = 0 THEN 12 ELSE 3

\* One axis in uT x 10: raw x calibration x gain, the calibration in 1/256 and
\* the gain in 1/20 uT, computed in full width and truncated.
ScaleAxis(raw, c, scale) == TruncDiv(raw * c * GainConstant(scale), 512)

ScaledSample(raw, c, scale) ==
    <<ScaleAxis(raw[1], c.x, scale), ScaleAxis(raw[2], c.y, scale),
      ScaleAxis(raw[3], c.z, scale)>>

\* Variant: a request is served whenever the owner holds a MagCal.
CanRead_StoreSet(s, st) == st # Nil

\* A request for calibration or samples is served only in Ready.
CanRead(s, st) == s = "Ready"

\* A request to read the calibration.  Outside Ready it fails at once;
\* otherwise the reader loads the owner's pointer and then reads the three
\* factors through it, one at a time.  An answer records in "over" whether the
\* owner's pointer was replaced while the read was in progress, in "ops" the
\* number of transport operations issued for it and in "tx" what the transport
\* answered to the last of them.
GetCalibration ==
    /\ rd = NoRead
    /\ IF CanRead(seq, store)
       THEN /\ rd' = [ptr |-> store, at |-> seq, got |-> <<>>]
            /\ UNCHANGED reply
       ELSE /\ reply' = [req |-> "calibration", at |-> seq, res |-> NotInitialized,
                         val |-> <<>>, ops |-> 0, over |-> FALSE, tx |-> "none"]
            /\ UNCHANGED rd
    /\ UNCHANGED <<mpuVars, otherVars>>

\* The reader reads the next factor of the MagCal it points to; the third one
\* completes the request.
ReadFactor ==
    /\ rd # NoRead
    /\ LET o == heap[rd.ptr]
           v == <<o.x, o.y, o.z>>[Len(rd.got) + 1]
       IN  IF Len(rd.got) < 2
           THEN /\ rd' = [rd EXCEPT !.got = Append(@, v)]
                /\ UNCHANGED reply
           ELSE /\ reply' = [req |-> "calibration", at |-> rd.at, res |-> "ok",
                             val |-> Append(rd.got, v), ops |-> 0,
                             over |-> store # rd.ptr, tx |-> "none"]
                /\ rd' = NoRead
    /\ UNCHANGED <<mpuVars, otherVars>>

\* A failed transport read: the transport's error is the result, after the one
\* operation that failed.
ReadFailure(c) == [res |-> c, ops |-> 1]

\* readScaled: outside Ready it fails without touching the transport; in Ready
\* it reads one raw sample through the transport and scales it with the
\* stored calibration, or returns the transport's error.
ReadScaled ==
    /\ IF ~CanRead(seq, store)
       THEN reply' = [req |-> "readScaled", at |-> seq, res |-> NotInitialized,
                      val |-> <<>>, ops |-> 0, over |-> FALSE, tx |-> "none"]
       ELSE \/ \E raw \in RawSamples :
                reply' = [req |-> "readScaled", at |-> seq, res |-> "ok",
                          val |-> ScaledSample(raw, heap[store], eff.scale), ops |-> 1,
                          over |-> FALSE, tx |-> "nil"]
            \/ \E c \in TransportErrors :
                reply' = [req |-> "readScaled", at |-> seq, res |-> ReadFailure(c).res,
                          val |-> <<>>, ops |-> ReadFailure(c).ops, over |-> FALSE,
                          tx |-> c]
    /\ UNCHANGED <<mpuVars, rd, otherVars>>

\* status: a read-through of the sensor's status register of a Ready session.
Status ==
    /\ seq = "Ready"
    /\ \/ \E b \in StatusInputs :
            reply' = [req |-> "status", at |-> seq, res |-> "ok", val |-> <<b>>, ops |-> 1,
                      over |-> FALSE, tx |-> "nil"]
       \/ \E c \in TransportErrors :
            reply' = [req |-> "status", at |-> seq, res |-> ReadFailure(c).res,
                      val |-> <<>>, ops |-> ReadFailure(c).ops, over |-> FALSE,
                      tx |-> c]
    /\ UNCHANGED <<mpuVars, rd, otherVars>>

InitSession == MpuInit(SessionConfigs) /\ PureIdle /\ HmcAbsent /\ MgrAbsent

NextSession ==
    \/ Next
    \/ GetCalibration
    \/ ReadFactor
    \/ ReadScaled
    \/ Status

SpecSession == InitSession /\ [][NextSession]_vars

\* Sessions over all configurations; those of SessionConfigs also serve
\* requests.
Request ==
    /\ cfg \in SessionConfigs
    /\ \/ GetCalibration
       \/ ReadFactor
       \/ ReadScaled
       \/ Status

InitResolved ==
    MpuInit(ConfigInputs \cup SessionConfigs) /\ PureIdle /\ HmcAbsent /\ MgrAbsent

NextResolved == Next \/ Request

SpecResolved == InitResolved /\ [][NextResolved]_vars

----------------------------------------------------------------------------
(* The sensitivity adjustment applied to every trim byte. *)

\* Trim byte triples: every byte value on every axis, and the triples of the
\* session.
AdjustmentInputs == {<<t, t, t>> : t \in 0..255} \cup TrimInputs

\* The MagCal of a trim byte triple.
ApplyMagCalOf ==
    /\ fin.f = "MagCalOf"
    /\ fout = NoOutput
    /\ fout' = <<MagCalOf(fin.a)>>
    /\ UNCHANGED <<mpuVars, apiVars, hmcVars, mgr, fin>>

\* Either a session of scenario A, or the function applied to a triple.
InitCal ==
    \/ MpuInit({DefaultConfig}) /\ PureIdle /\ HmcAbsent /\ MgrAbsent
    \/ /\ MpuAbsent
       /\ HmcAbsent
       /\ MgrAbsent
       /\ fin \in {[f |-> "MagCalOf", a |-> b] : b \in AdjustmentInputs}
       /\ fout = NoOutput

NextCal == Next \/ ApplyMagCalOf

SpecCal == InitCal /\ [][NextCal]_vars
----------------------------------------------------------------------------
(* hmc5983: the gain tables and the conversion of counts to uT x 10. *)

\* New: LSB per gauss of the X/Y axes and of the Z axis, by gain code 0..7.
gainXY == <<1370, 1090, 820, 660, 440, 390, 330, 230>>
gainZ == <<1330, 980, 660, 600, 400, 355, 295, 205>>

\* A float64 mantissa of 53 bits is kept in three limbs of 18 bits, the most
\* significant first, so that no intermediate value exceeds 31 bits.
Limb == 2 ^ 18

\* q + 1 on limbs.
Increment(q) ==
    LET c2 == q[3] + 1
        b2 == q[2] + c2 \div Limb
        a2 == q[1] + b2 \div Limb
    IN  <<a2, b2 % Limb, c2 % Limb>>

\* The binary exponent of c/l: the e with 2^e <= c/l < 2^(e+1), for c, l > 0.
RECURSIVE Log2Floor(_, _)
Log2Floor(c, l) ==
    IF c >= 2 * l THEN Log2Floor(c, 2 * l) + 1
    ELSE IF c < l THEN Log2Floor(2 * c, l) - 1
    ELSE 0

\* k more bits (k in 0..18) of the quotient d.q, with remainder d.r, of a
\* division by l < 2^11.
QuotientBits(d, l, k) ==
    LET w == 2 ^ (18 - k)
        t == d.r * (2 ^ k)
    IN  [q |-> <<d.q[1] * (2 ^ k) + d.q[2] \div w,
                 (d.q[2] % w) * (2 ^ k) + d.q[3] \div w,
                 (d.q[3] % w) * (2 ^ k) + t \div l>>,
         r |-> t % l]

\* float64(c) / float64(l) for 0 < c <= 2^15 and 2^7 < l < 2^11: the quotient
\* rounded to 53 significant bits, ties to even; the result is m / 2^s, with s
\* between 45 and 63.
Float64Quotient(c, l) ==
    LET s == 52 - Log2Floor(c, l)
        k == IF s - 36 < 18 THEN s - 36 ELSE 18
        d0 == [q |-> <<0, 0, c \div l>>, r |-> c % l]
        d1 == QuotientBits(d0, l, 18)
        d2 == QuotientBits(d1, l, 18)
        d3 == QuotientBits(d2, l, k)
        d == QuotientBits(d3, l, s - 36 - k)
        up == 2 * d.r > l \/ (2 * d.r = l /\ d.q[3] % 2 = 1)
    IN  [m |-> IF up THEN Increment(d.q) ELSE d.q, s |-> s]

\* The integer part of g * 1000.0 for g = m / 2^s with s >= 36: the product
\* p2 p1 p0 of 62 or 63 bits is rounded to 53 significant bits, ties to even,
\* and the fraction is dropped; the rounding reaches the integer part only
\* when every kept bit of the fraction is one.
Float64Times1000Trunc(g) ==
    LET c1 == g.m[3] * 1000
        b1 == g.m[2] * 1000 + c1 \div Limb
        p0 == c1 % Limb
        p1 == b1 % Limb
        p2 == g.m[1] * 1000 + b1 \div Limb
        d == IF p2 >= 2 ^ 26 THEN 10 ELSE 9
        rem == p0 % (2 ^ d)
        kept == p0 \div (2 ^ d)
        up == rem > 2 ^ (d - 1) \/ (rem = 2 ^ (d - 1) /\ kept % 2 = 1)
        hi == 2 ^ (g.s - 36)
        ones == p2 % hi = hi - 1 /\ p1 = Limb - 1 /\ kept = 2 ^ (18 - d) - 1
    IN  p2 \div hi + (IF up /\ ones THEN 1 ELSE 0)

\* g := float64(counts) / float64(lsbPerGauss); g * 1000.0, its fraction
\* dropped by the conversion to an integer.
MicroTesla10(counts, lsb) ==
    IF counts = 0 THEN 0
    ELSE IF counts > 0 THEN Float64Times1000Trunc(Float64Quotient(counts, lsb))
    ELSE -Float64Times1000Trunc(Float64Quotient(-counts, lsb))

InInt16(v) == v >= -32768 /\ v <= 32767
Wrap16(v) == ((v + 32768) % 65536) - 32768
Saturate16(v) == IF v > 32767 THEN 32767 ELSE IF v < -32768 THEN -32768 ELSE v

\* int16(f) of a float64 f with integer part v.  When v does not fit, the
\* result is implementation-dependent: current compilers keep the low 16
\* bits, a saturating conversion is the other outcome.
Int16Of(v) == IF InInt16(v) THEN {v} ELSE {Wrap16(v), Saturate16(v)}

\* CountsToMicroTesla10 (and each axis of Sense): the possible results.
CountsToMicroTesla10(counts, lsb) == Int16Of(MicroTesla10(counts, lsb))

\* New: a gain code outside 0..7 is replaced by 1.
GainCodeOf(g) == IF g < 0 \/ g > 7 THEN 1 ELSE g

\* Variant: the Dev always scales with the factors of gain code 1.
DevOf_DefaultGain(g) == [lsbPerGaXY |-> gainXY[2], lsbPerGaZ |-> gainZ[2]]

\* New: the scale factors kept in the Dev for gain code g.
DevOf(g) == [lsbPerGaXY |-> gainXY[GainCodeOf(g) + 1], lsbPerGaZ |-> gainZ[GainCodeOf(g) + 1]]

\* Variant: the scaled values returned in the order of the data registers
\* (X, Z, Y).
SenseScale_RegisterOrder(d, raw) ==
    {<<ux, uz, uy>> : ux \in CountsToMicroTesla10(raw[1], d.lsbPerGaXY),
                      uy \in CountsToMicroTesla10(raw[2], d.lsbPerGaXY),
                      uz \in CountsToMicroTesla10(raw[3], d.lsbPerGaZ)}

\* Sense: the raw counts (x, y, z) scaled axis by axis, X and Y with
\* lsbPerGaXY and Z with lsbPerGaZ; the possible results.
SenseScale(d, raw) ==
    {<<ux, uy, uz>> : ux \in CountsToMicroTesla10(raw[1], d.lsbPerGaXY),
                      uy \in CountsToMicroTesla10(raw[2], d.lsbPerGaXY),
                      uz \in CountsToMicroTesla10(raw[3], d.lsbPerGaZ)}

----------------------------------------------------------------------------
(* hmc5983: New and the calls on a Dev. *)

regCRA == 0
regCRB == 1
regMODE == 2
regDATA == 3
regSTATUS == 9
regIDA == 10
DefaultAddr == 30

\* Opts given to New.
OptsInputs ==
    {[ODRHz |-> o, AvgSamples |-> a, GainCode |-> g, Mode |-> m, Addr |-> ad] :
        o \in {0, 75}, a \in {1, 8}, g \in -1..8,
        m \in {"continuous", "single"}, ad \in {0, 13}}

\* What the bus may deliver: the six data bytes (X, Z, Y; MSB first), the
\* status byte, the three identity bytes.
\* An axis is two bytes: here with the high bit set in neither (402), in the
\* low one (255), in the high one (-32768) and in both (-2); each pair occurs
\* at each place.
DataInputs ==
    {<<0, 0, 0, 0, 0, 0>>,
     <<1, 146, 0, 255, 128, 0>>,
     <<0, 255, 128, 0, 255, 254>>,
     <<128, 0, 255, 254, 1, 146>>,
     <<255, 254, 1, 146, 0, 255>>}
StatusBytes == {<<0>>, <<1>>, <<3>>}
IdInputs == {<<72, 52, 51>>, <<0, 0, 0>>}

\* New: the CRA byte, averaging in bits 6..5 and output rate in bits 4..2.
CraOf(o) ==
    LET avg == IF o.AvgSamples = 8 THEN ShiftLeft8(3, 5)
               ELSE IF o.AvgSamples = 4 THEN ShiftLeft8(2, 5)
               ELSE IF o.AvgSamples = 2 THEN ShiftLeft8(1, 5)
               ELSE 0
        odr == IF o.ODRHz = 75 THEN ShiftLeft8(6, 2)
               ELSE IF o.ODRHz = 30 THEN ShiftLeft8(4, 2)
               ELSE IF o.ODRHz = 15 THEN ShiftLeft8(3, 2)
               ELSE IF o.ODRHz = 7 THEN ShiftLeft8(2, 2)
               ELSE IF o.ODRHz = 3 THEN ShiftLeft8(1, 2)
               ELSE ShiftLeft8(3, 2)
    IN  BitOr(avg, odr)

\* Variant: the mode register written first.
NewWrites_ModeFirst(o) ==
    << <<regMODE, IF o.Mode = "single" THEN 1 ELSE 0>>,
       <<regCRA, CraOf(o)>>,
       <<regCRB, ShiftLeft8(GainCodeOf(o.GainCode), 5)>> >>

\* New: the register writes, in program order.
NewWrites(o) ==
    << <<regCRA, CraOf(o)>>,
       <<regCRB, ShiftLeft8(GainCodeOf(o.GainCode), 5)>>,
       <<regMODE, IF o.Mode = "single" THEN 1 ELSE 0>> >>

\* New: the Dev built from the Opts.
NewDev(o) ==
    [addr |-> IF o.Addr = 0 THEN DefaultAddr ELSE o.Addr,
     lsbPerGaXY |-> DevOf(o.GainCode).lsbPerGaXY,
     lsbPerGaZ |-> DevOf(o.GainCode).lsbPerGaZ]

\* One transaction Tx(w, r) of the bus: the bytes written, the number of bytes
\* to read and the error returned.
Tx(w, n, e) == [w |-> w, n |-> n, err |-> e, r |-> <<>>]

\* A transaction that delivered the bytes data.
TxRead(w, data) == [w |-> w, n |-> Len(data), err |-> "nil", r |-> data]

\* New: the three writes; the first one that fails ends the call, which then
\* returns no Dev and the error of the bus.
HmcNew ==
    /\ hOpts # NoOpts
    /\ hDev = NoDev
    /\ hRet = NoRet
    /\ LET ws == NewWrites(hOpts)
       IN  \/ /\ hBus' = [i \in 1..3 |-> Tx(ws[i], 0, "nil")]
              /\ hDev' = NewDev(hOpts)
              /\ hRet' = [fn |-> "New", vals |-> <<>>, err |-> "nil"]
           \/ \E k \in 1..3, c \in TransportErrors :
                 /\ hBus' = [i \in 1..k |-> Tx(ws[i], 0, IF i = k THEN c ELSE "nil")]
                 /\ hDev' = NoDev
                 /\ hRet' = [fn |-> "New", vals |-> <<>>, err |-> c]
    /\ UNCHANGED <<hOpts, mpuVars, apiVars, pureVars, mgr>>

\* int16(hi)<<8 | int16(lo) of two bytes: the shift keeps the low 16 bits as a
\* signed value whose low byte is 0, so that the OR adds the low byte.
Int16OfBytes(hi, lo) == Wrap16(hi * 256) + lo

\* Variant: the axes returned in the order of the registers.
RawOf_RegisterOrder(data) ==
    <<Int16OfBytes(data[1], data[2]), Int16OfBytes(data[3], data[4]),
      Int16OfBytes(data[5], data[6])>>

\* SenseRaw: x, y, z from the data bytes, which come in the order X, Z, Y.
RawOf(data) ==
    <<Int16OfBytes(data[1], data[2]), Int16OfBytes(data[5], data[6]),
      Int16OfBytes(data[3], data[4])>>

\* Variant: the error of the bus replaced by one of the driver.
ReadError_Replaced(fn, k, c) ==
    [fn |-> fn, vals |-> [i \in 1..k |-> 0], err |-> "readRegBlock: empty buffer"]

\* A call whose block read failed returns k zero values and the error of the
\* bus, as it is.
ReadError(fn, k, c) == [fn |-> fn, vals |-> [i \in 1..k |-> 0], err |-> c]

\* A call on the Dev that reads n bytes from register reg in one transaction:
\* either the bus delivers bytes data and the call returns one of the results
\* Out[data], or the bus fails and the call returns ReadError.
ReadCall(fn, reg, n, Out) ==
    /\ hDev # NoDev
    /\ \/ \E data \in DOMAIN Out :
             \E v \in Out[data] :
                /\ Len(data) = n
                /\ hBus' = <<TxRead(<<reg>>, data)>>
                /\ hRet' = [fn |-> fn, vals |-> v, err |-> "nil"]
       \/ \E c \in TransportErrors :
             /\ hBus' = <<Tx(<<reg>>, n, c)>>
             /\ hRet' = ReadError(fn, IF n = 6 THEN 3 ELSE n, c)
    /\ UNCHANGED <<hOpts, hDev, mpuVars, apiVars, pureVars, mgr>>

\* The results of the calls for the bytes the bus may deliver.
IdOut == [data \in IdInputs |-> {data}]
SenseRawOut == [data \in DataInputs |-> {RawOf(data)}]
SenseOut == [data \in DataInputs |-> SenseScale(hDev, RawOf(data))]
StatusOut == [data \in StatusBytes |-> {<<data[1]>>}]

HmcID == ReadCall("ID", regIDA, 3, IdOut)
HmcSenseRaw == ReadCall("SenseRaw", regDATA, 6, SenseRawOut)
HmcSense == ReadCall("Sense", regDATA, 6, SenseOut)
HmcStatus == ReadCall("Status", regSTATUS, 1, StatusOut)

\* A process drives either an MPU9250 session, serving requests, or an
\* HMC5983.
InitDrivers ==
    \/ MpuInit(SessionConfigs) /\ PureIdle /\ HmcAbsent /\ MgrAbsent
    \/ /\ MpuAbsent
       /\ PureIdle
       /\ MgrAbsent
       /\ hOpts \in OptsInputs
       /\ hDev = NoDev
       /\ hBus = <<>>
       /\ hRet = NoRet

NextDrivers ==
    \/ NextSession
    \/ HmcNew
    \/ HmcID
    \/ HmcSenseRaw
    \/ HmcSense
    \/ HmcStatus

SpecDrivers == InitDrivers /\ [][NextDrivers]_vars

----------------------------------------------------------------------------
(* IMUManager: the left and the right IMU, each with its own magnetometer
   session (MAG_README.md section 4.3).  Both IMUs are present. *)

\* The session of one IMU before its first InitMag: the parameters the manager
\* passes to InitMag, and the *MagCal the manager keeps for it (leftMagCal,
\* rightMagCal).
NewSession(p) == [seq |-> "Idle", eff |-> p, trim |-> NoTrim, cal |-> Nil, err |-> NoErr]

\* The manager after construction: no Init called yet.
NewMgr(p) ==
    [pc |-> "idle", calls |-> 0, left |-> NewSession(p), right |-> NewSession(p),
     heap |-> <<>>, ret |-> NoErr]

\* Variant: the MagCal of both IMUs is one package-level object that each
\* successful InitMag overwrites.
MgrPublish_PackageLevel(h, s, v) ==
    IF Len(h) = 0
    THEN [heap |-> <<v>>, store |-> 1]
    ELSE [heap |-> [h EXCEPT ![1] = v], store |-> 1]

\* InitMag returns a pointer to the MagCal of this run and the manager assigns
\* it to the field of the IMU.
MgrPublish(h, s, v) == PublishCal(h, s, v)

\* A session at the start of a run of InitMag: the sequencer is at the head of
\* the sequence; the MagCal the manager holds for the IMU is not touched.
StartRun(s) ==
    [s EXCEPT !.seq = StartStep(s.err, InitSequence(s.eff)), !.trim = NoTrim,
              !.err = NoErr]

\* Init is called: it begins with InitMag of the left IMU.
MgrCallInit ==
    /\ mgr # NoMgr
    /\ mgr.pc = "idle"
    /\ mgr.calls < MaxRuns
    /\ mgr' = [mgr EXCEPT !.pc = "left", !.calls = @ + 1, !.ret = NoErr,
                          !.left = StartRun(@)]
    /\ UNCHANGED <<mpuVars, apiVars, pureVars, hmcVars>>

\* InitMag of the left IMU has returned without error and its MagCal is
\* assigned: Init goes on with InitMag of the right IMU.
MgrStartRight ==
    /\ mgr # NoMgr
    /\ mgr.pc = "between"
    /\ mgr' = [mgr EXCEPT !.pc = "right", !.right = StartRun(@)]
    /\ UNCHANGED <<mpuVars, apiVars, pureVars, hmcVars>>

\* One step of InitMag on the IMU d.  When the last step completes, the MagCal
\* is returned and assigned and Init goes on (after the left IMU) or returns
\* nil (after the right one); when the transport fails, Init returns the error
\* at once and the field of the IMU is left as it was.
DevStep(d) ==
    /\ mgr # NoMgr
    /\ mgr.pc = d
    /\ LET s == mgr[d]
           S == s.seq
           t == InitSequence(s.eff)
           e == t[StepIndex(S, t)]
       IN  \/ \E tr \in (IF e.kind = "read" THEN TrimInputs ELSE {s.trim}) :
                LET n == Successor(S, t)
                    pub == MgrPublish(mgr.heap, s.cal, MagCalOf(tr))
                IN  mgr' = [mgr EXCEPT
                          ![d] = [s EXCEPT !.seq = n, !.trim = tr,
                                           !.cal = IF Publishes(S, n) THEN pub.store ELSE @],
                          !.heap = IF Publishes(S, n) THEN pub.heap ELSE @,
                          !.pc = IF n # "Ready" THEN d
                                 ELSE IF d = "left" THEN "between" ELSE "idle"]
           \/ \E c \in TransportErrors :
                mgr' = [mgr EXCEPT
                          ![d] = [s EXCEPT !.seq = FailStep(S, c).seq,
                                           !.err = FailStep(S, c).err],
                          !.pc = "idle",
                          !.ret = FailStep(S, c).err]
    /\ UNCHANGED <<mpuVars, apiVars, pureVars, hmcVars>>

LeftStep == DevStep("left")
RightStep == DevStep("right")

InitManager ==
    /\ MpuAbsent
    /\ PureIdle
    /\ HmcAbsent
    /\ mgr = NewMgr(EffectiveParameters(DefaultConfig))

NextManager ==
    \/ MgrCallInit
    \/ MgrStartRight
    \/ LeftStep
    \/ RightStep

SpecManager == InitManager /\ [][NextManager]_vars

----------------------------------------------------------------------------
(* The scaling functions applied to their inputs. *)

\* Counts: the extremes of int16, the largest count that fits with 230 LSB/Ga
\* and the next one, the 12-bit range of the sensor, and counts whose exact
\* result is an integer.
CountsInputs == {-32768, -7537, -7536, -2048, -402, -1, 0, 1, 402, 603, 2047,
                 7536, 7537, 32767}

LsbInputs == {gainXY[i] : i \in 1..8} \cup {gainZ[i] : i \in 1..8}

\* Calibration factors (1/256) and scales of the MPU9250 scaling.
FactorInputs == {128, 256, 383}

ScaleAxisInputs ==
    {<<r, c, sc>> : r \in {-32768, -1, 0, 1, 32767}, c \in FactorInputs, sc \in {0, 1}}

\* Raw samples and gain codes of Sense; samples, calibrations and scales of
\* the MPU9250 scaling.
SenseInputs ==
    {<<r, g>> : r \in RawSamples \cup {<<402, 0, 603>>, <<7537, 7536, 0>>},
                g \in {-1, 0, 1, 4, 7, 8}}

ScaledSampleInputs ==
    {<<r, MagCalOf(b), sc>> : r \in RawSamples, b \in TrimInputs, sc \in {0, 1}}

ApplyCountsToMicroTesla10 ==
    /\ fin.f = "CountsToMicroTesla10"
    /\ fout = NoOutput
    /\ \E o \in CountsToMicroTesla10(fin.a[1], fin.a[2]) : fout' = <<o>>
    /\ UNCHANGED <<mpuVars, apiVars, hmcVars, mgr, fin>>

ApplyScaleAxis ==
    /\ fin.f = "ScaleAxis"
    /\ fout = NoOutput
    /\ fout' = <<ScaleAxis(fin.a[1], fin.a[2], fin.a[3])>>
    /\ UNCHANGED <<mpuVars, apiVars, hmcVars, mgr, fin>>

ApplySenseScale ==
    /\ fin.f = "Sense"
    /\ fout = NoOutput
    /\ \E o \in SenseScale(DevOf(fin.a[2]), fin.a[1]) : fout' = <<o>>
    /\ UNCHANGED <<mpuVars, apiVars, hmcVars, mgr, fin>>

ApplyScaledSample ==
    /\ fin.f = "ScaledSample"
    /\ fout = NoOutput
    /\ fout' = <<ScaledSample(fin.a[1], fin.a[2], fin.a[3])>>
    /\ UNCHANGED <<mpuVars, apiVars, hmcVars, mgr, fin>>

ScaleFunctionInputs ==
    {[f |-> "CountsToMicroTesla10", a |-> <<c, l>>] : c \in CountsInputs, l \in LsbInputs}
    \cup {[f |-> "ScaleAxis", a |-> t] : t \in ScaleAxisInputs}
    \cup {[f |-> "Sense", a |-> t] : t \in SenseInputs}
    \cup {[f |-> "ScaledSample", a |-> t] : t \in ScaledSampleInputs}

InitScale ==
    /\ MpuAbsent
    /\ HmcAbsent
    /\ MgrAbsent
    /\ fin \in ScaleFunctionInputs
    /\ fout = NoOutput

NextScale ==
    \/ ApplyCountsToMicroTesla10
    \/ ApplyScaleAxis
    \/ ApplySenseScale
    \/ ApplyScaledSample

SpecScale == InitScale /\ [][NextScale]_vars

\* Contents of the six data registers: every byte with all bits clear, the
\* lowest bit, all but the high bit, the high bit only, or all bits set.
ByteInputs == {0, 1, 127, 128, 255}

BlockInputs ==
    {<<a, b, c, d, e, g>> : a \in ByteInputs, b \in ByteInputs, c \in ByteInputs,
                            d \in ByteInputs, e \in ByteInputs, g \in ByteInputs}

\* The conversion of SenseRaw applied to a block of six bytes.
ApplyRawOf ==
    /\ fin.f = "RawOf"
    /\ fout = NoOutput
    /\ fout' = <<RawOf(fin.a)>>
    /\ UNCHANGED <<mpuVars, apiVars, hmcVars, mgr, fin>>

\* An HMC5983 with its calls, or the conversion of SenseRaw applied on its own.
InitSense ==
    /\ MpuAbsent
    /\ MgrAbsent
    /\ \/ /\ PureIdle
          /\ hOpts \in OptsInputs
          /\ hDev = NoDev
          /\ hBus = <<>>
          /\ hRet = NoRet
       \/ /\ HmcAbsent
          /\ fin \in {[f |-> "RawOf", a |-> b] : b \in BlockInputs}
          /\ fout = NoOutput

NextSense ==
    \/ HmcNew
    \/ HmcID
    \/ HmcSenseRaw
    \/ HmcSense
    \/ HmcStatus
    \/ ApplyRawOf

SpecSense == InitSense /\ [][NextSense]_vars

----------------------------------------------------------------------------
(* Properties of the initialization sequencer. *)

\* The transport operations of a log (the settle waits left out).
Ops(l) == SelectSeq(l, LAMBDA e : e.kind # "wait")

\* The settle waits of a log.
Waits(l) == SelectSeq(l, LAMBDA e : e.kind = "wait")

StepOrder == <<"Reset", "PowerDown1", "FuseMode", "ReadCalibration", "PowerDown2",
               "SetMode", "ConfigureContinuousRead">>

FullVisit == <<"Idle", "Reset", "PowerDown1", "FuseMode", "ReadCalibration",
               "PowerDown2", "SetMode", "ConfigureContinuousRead", "Ready">>

\* The operation each step is expected to issue, in step order.
ExpectedOps(p) ==
    << [kind |-> "write", reg |-> "CNTL2", val |-> 1, err |-> "nil"],
       [kind |-> "write", reg |-> "CNTL", val |-> 0, err |-> "nil"],
       [kind |-> "write", reg |-> "CNTL", val |-> 15, err |-> "nil"],
       [kind |-> "read", reg |-> "ASAX", val |-> 3, err |-> "nil"],
       [kind |-> "write", reg |-> "CNTL", val |-> 0, err |-> "nil"],
       [kind |-> "write", reg |-> "CNTL", val |-> 16 * p.scale + p.mode, err |-> "nil"],
       [kind |-> "setup", reg |-> "I2C_SLV0", val |-> p.sampleRateDivider, err |-> "nil"] >>

\* Some step of the sequence.
AnyStep ==
    \/ StepReset \/ StepPowerDown1 \/ StepFuseMode \/ StepReadCalibration
    \/ StepPowerDown2 \/ StepSetMode \/ StepConfigureContinuousRead

\* The sessions of SessionConfigs when every transport call returns and every
\* settle wait elapses: a step that can be taken is eventually taken.
SpecLive == InitSession /\ [][Next]_vars /\ WF_vars(AnyStep)

\* C1: a run that ends in Ready has visited Idle, Reset, PowerDown1, FuseMode,
\* ReadCalibration, PowerDown2, SetMode, ConfigureContinuousRead, Ready, each
\* once and in that order, and has issued exactly the seven transport
\* operations of these steps in that order, none skipped, repeated or reordered.
C1_FixedOrder ==
    seq = "Ready" =>
        /\ visited = FullVisit
        /\ Ops(log) = ExpectedOps(eff)

C1_Witness == seq = "Ready" /\ runs = 1 /\ Len(Ops(log)) = 7

\* C2: when the transport fails during step S the run ends in Failed and the
\* error carries exactly S (the step whose operation is the failed one, i.e.
\* the n-th step when the failed operation is the n-th issued) and, as cause,
\* the error the transport returned.
C2_ErrorNamesFailingStep ==
    /\ seq = "Failed" =>
           /\ Len(log) > 0
           /\ log[Len(log)].err \in TransportErrors
           /\ initErr.cause = log[Len(log)].err
           /\ initErr.step = StepOrder[Len(Ops(log))]
           /\ initErr.step = visited[Len(visited) - 1]
           /\ [log[Len(log)] EXCEPT !.err = "nil"] = ExpectedOps(eff)[Len(Ops(log))]
    /\ (\E i \in DOMAIN log : log[i].err # "nil") => seq = "Failed"

C2_Witness ==
    /\ seq = "Failed"
    /\ initErr = [step |-> "SetMode", cause |-> "timeout"]
    /\ log[Len(log)].reg = "CNTL" /\ log[Len(log)].err = "timeout"

\* C3: after the first transport failure of a run nothing more is issued in
\* that run: the failed operation is the last entry of the run's log (no
\* settle wait, no retry, no later step follows it), and in Failed no step of
\* the sequence can be taken.
C3_NothingAfterFailure ==
    /\ \A i \in DOMAIN log : log[i].err # "nil" => i = Len(log)
    /\ seq = "Failed" =>
           /\ Len(log) > 0 /\ log[Len(log)].err # "nil"
           /\ ~ENABLED AnyStep

C3_Witness ==
    /\ seq = "Failed"
    /\ initErr.step = "FuseMode"
    /\ Len(Ops(log)) = 3 /\ Len(Waits(log)) = 2

\* C4: a run that follows a failed run is a fresh run: it starts at Reset with
\* nothing carried over, and when all its transport operations succeed it
\* goes through all seven steps and reaches Ready; if it fails too, Failed
\* ends it: no step of the sequence can be taken from Failed.
C4_FreshRunAfterFailure ==
    prev.seq = "Failed" =>
        /\ Len(visited) >= 2 /\ visited[1] = "Idle" /\ visited[2] = "Reset"
        /\ \A i \in DOMAIN visited : i <= Len(FullVisit) - 1 => visited[i] \in {FullVisit[i], "Failed"}
        /\ Len(log) > 0 => [log[1] EXCEPT !.err = "nil"] = ExpectedOps(eff)[1]
        /\ seq = "Ready" <=> (Len(Ops(log)) = 7 /\ \A i \in DOMAIN log : log[i].err = "nil")
        /\ seq = "Ready" => visited = FullVisit /\ initErr = NoErr
        /\ seq = "Failed" => visited[Len(visited)] = "Failed" /\ ~ENABLED AnyStep

C4_Witness ==
    /\ prev = [seq |-> "Failed", step |-> "FuseMode"]
    /\ seq = "Ready"
    /\ runs = 2

----------------------------------------------------------------------------
(* Properties of the configuration resolution. *)

\* An override delay counts as set when it is positive (-1 is the documented
\* "use the standard value").
OverrideSet(v) == v > 0

NoOverride(c) ==
    ~OverrideSet(c.RegisterDebugMagWriteDelay) /\ ~OverrideSet(c.RegisterDebugMagReadDelay)

\* The documented ranges of the standard parameter set.
StdWriteDelayOk(c) == c.MagWriteDelayMS >= 1 /\ c.MagWriteDelayMS <= 200
StdReadDelayOk(c) == c.MagReadDelayMS >= 1 /\ c.MagReadDelayMS <= 50
StdScaleOk(c) == c.MagScale \in {0, 1}
StdModeOk(c) == c.MagMode \in {0, 1, 2, 4, 6, 8, 15}
StdDividerOk(c) == c.MagSampleRateDivider <= 15
StdOtherOk(c) == StdReadDelayOk(c) /\ StdScaleOk(c) /\ StdModeOk(c) /\ StdDividerOk(c)
StdOk(c) == StdWriteDelayOk(c) /\ StdOtherOk(c)

\* C5: whenever validation fails with ConfigError (sampleRateDivider = 16, an
\* invalid mode, scale > 1, an out-of-range delay, ...) no transport call has
\* been made: the log holds no write, read or wait, no run of InitMag was
\* started and the sequencer is still in Idle.
C5_ConfigErrorBeforeTransport ==
    (resolved = "ConfigError" \/ ~StdOk(cfg)) =>
        /\ log = <<>>
        /\ seq = "Idle" /\ visited = <<"Idle">>
        /\ runs = 0
        /\ ~ENABLED Initialize

C5_Witness ==
    /\ resolved = "ConfigError"
    /\ cfg.MagSampleRateDivider = 16
    /\ StdWriteDelayOk(cfg) /\ StdReadDelayOk(cfg) /\ StdScaleOk(cfg) /\ StdModeOk(cfg)
    /\ log = <<>> /\ seq = "Idle"

\* C7: once resolved, every standard parameter set with writeDelay outside
\* [1,200] ms, readDelay outside [1,50] ms, scale not 0 or 1, a mode outside the
\* valid set or sampleRateDivider above 15 has ConfigError (with or without a
\* debug override), and no effective parameters are produced in its place.
C7_RejectsOutOfRange ==
    (resolved # "pending" /\ ~StdOk(cfg)) =>
        /\ resolved = "ConfigError"
        /\ configErr # "nil"
        /\ eff = NoParams

C7_Witness ==
    /\ resolved = "ConfigError"
    /\ cfg.MagMode = 3
    /\ StdWriteDelayOk(cfg) /\ StdReadDelayOk(cfg) /\ StdScaleOk(cfg) /\ StdDividerOk(cfg)

\* C8 as stated: a standard set with writeDelay below 50 ms and no debug
\* override always has ConfigError.
C8_Original ==
    (resolved # "pending" /\ NoOverride(cfg) /\ cfg.MagWriteDelayMS < 50) =>
        resolved = "ConfigError"

\* C8 amended: with no debug override, a writeDelay below 1 ms always has
\* ConfigError; a writeDelay in [1,49] ms always logs the warning and has
\* ConfigError only when another field of the set is invalid.
C8_BelowFloor ==
    (resolved # "pending" /\ NoOverride(cfg) /\ cfg.MagWriteDelayMS < 50) =>
        IF cfg.MagWriteDelayMS < 1
        THEN resolved = "ConfigError" /\ configErr = "MAG_WRITE_DELAY_MS"
        ELSE /\ "write delay below 50ms" \in warnings
             /\ resolved = "ConfigError" <=> ~StdOtherOk(cfg)

C8_Witness ==
    /\ resolved = "ConfigError"
    /\ NoOverride(cfg)
    /\ cfg.MagWriteDelayMS = 0
    /\ StdOtherOk(cfg)

\* C9: a standard set with writeDelay in [1,49] ms, every other field valid and
\* no debug override is accepted: the warning is logged and the effective
\* parameters carry that writeDelay.
C9_WarnsAndAccepts ==
    (/\ resolved # "pending"
     /\ NoOverride(cfg)
     /\ cfg.MagWriteDelayMS >= 1 /\ cfg.MagWriteDelayMS <= 49
     /\ StdOtherOk(cfg)) =>
        /\ resolved = "ok"
        /\ "write delay below 50ms" \in warnings
        /\ eff # NoParams
        /\ eff.writeDelay = cfg.MagWriteDelayMS

C9_Witness ==
    /\ resolved = "ok"
    /\ NoOverride(cfg)
    /\ cfg.MagWriteDelayMS = 49
    /\ eff.writeDelay = 49
    /\ warnings = {"write delay below 50ms"}

\* C10: for an override that is set: a write override outside [1,500] ms or a
\* read override outside [1,100] ms has ConfigError with either value of unsafe;
\* a write override in [1,49] ms has ConfigError when unsafe is false and passes
\* when unsafe is true; a write override in [50,500] ms passes with either value
\* of unsafe ("passes": the standard set and the other override being valid,
\* the resolution succeeds).
C10_OverrideRanges ==
    LET dw == cfg.RegisterDebugMagWriteDelay
        dr == cfg.RegisterDebugMagReadDelay
        u == cfg.RegisterDebugMagUnsafeMode
        readOk == ~OverrideSet(dr) \/ (dr >= 1 /\ dr <= 100)
    IN  resolved # "pending" =>
            /\ (OverrideSet(dw) /\ ~(dw >= 1 /\ dw <= 500)) => resolved = "ConfigError"
            /\ (OverrideSet(dr) /\ ~(dr >= 1 /\ dr <= 100)) => resolved = "ConfigError"
            /\ (OverrideSet(dw) /\ dw >= 1 /\ dw <= 49 /\ ~u) => resolved = "ConfigError"
            /\ (OverrideSet(dw) /\ dw >= 1 /\ dw <= 49 /\ u /\ StdOk(cfg) /\ readOk)
                    => resolved = "ok"
            /\ (OverrideSet(dw) /\ dw >= 50 /\ dw <= 500 /\ StdOk(cfg) /\ readOk)
                    => resolved = "ok"

C10_Witness ==
    /\ resolved = "ok"
    /\ cfg.RegisterDebugMagWriteDelay = 49
    /\ cfg.RegisterDebugMagUnsafeMode
    /\ eff.writeDelay = 49

\* C11: the effective writeDelay is the write override when it is set and the
\* standard writeDelay otherwise; the effective readDelay is the read override
\* when it is set and the standard readDelay otherwise, independently of the
\* write override; scale, mode and sampleRateDivider are always the standard
\* values.  So overriding one delay changes neither the other delay nor any
\* other field.
C11_IndependentDelays ==
    LET dw == cfg.RegisterDebugMagWriteDelay
        dr == cfg.RegisterDebugMagReadDelay
    IN  resolved = "ok" =>
            /\ eff.writeDelay = IF OverrideSet(dw) THEN dw ELSE cfg.MagWriteDelayMS
            /\ eff.readDelay = IF OverrideSet(dr) THEN dr ELSE cfg.MagReadDelayMS
            /\ eff.scale = cfg.MagScale
            /\ eff.mode = cfg.MagMode
            /\ eff.sampleRateDivider = cfg.MagSampleRateDivider

\* Only the write delay is overridden, and with a value shorter than the
\* standard one: the read delay stays the standard one.
C11_Witness ==
    /\ resolved = "ok"
    /\ cfg.RegisterDebugMagWriteDelay = 49
    /\ cfg.MagWriteDelayMS = 50
    /\ ~OverrideSet(cfg.RegisterDebugMagReadDelay)
    /\ eff.writeDelay = 49
    /\ eff.readDelay = cfg.MagReadDelayMS

----------------------------------------------------------------------------
(* Properties of the Calibration Store and of the steady-state reads. *)

NonReadyStates == {"Idle", "Reset", "PowerDown1", "FuseMode", "ReadCalibration",
                   "PowerDown2", "SetMode", "ConfigureContinuousRead", "Failed"}

Triple(o) == <<o.x, o.y, o.z>>

\* C13: when a reinitialization replaces the stored calibration while a reader
\* reads it, the read returns the three factors of one single MagCal, the one
\* stored before or the one stored after, never a mixture; the factors read so
\* far by a read in progress are those of the MagCal the reader loaded.
C13_NoTornRead ==
    /\ (reply.req = "calibration" /\ reply.res = "ok") =>
            \E i \in DOMAIN heap : reply.val = Triple(heap[i])
    /\ rd # NoRead =>
            /\ rd.ptr \in DOMAIN heap
            /\ rd.got = SubSeq(Triple(heap[rd.ptr]), 1, Len(rd.got))

\* A read that a reinitialization overtook: it returned the factors of the
\* first run although the second run has stored different ones.
C13_Witness ==
    /\ reply.req = "calibration"
    /\ reply.res = "ok"
    /\ reply.over
    /\ runs = 2
    /\ seq = "Ready"
    /\ reply.val = Triple(heap[1])
    /\ \A a \in 1..3 : Triple(heap[store])[a] # reply.val[a]

\* C14: a MagCal is returned and stored only by a run that reaches Ready; a run
\* that fails (at ReadCalibration, or after the trim bytes were read at
\* PowerDown2, SetMode or ConfigureContinuousRead) returns none and leaves the
\* store as it was; the store is empty or holds the three factors computed from
\* the three trim bytes of the one ReadCalibration step of the run that stored
\* them, and a stored MagCal is never changed afterwards.
C14_OnlyReadyProduces ==
    /\ [](/\ cal # NoCal => seq = "Ready"
          /\ seq = "Failed" => cal = NoCal
          /\ store = Nil \/ store \in DOMAIN heap
          /\ seq = "Ready" =>
                /\ Len(SelectSeq(log, LAMBDA e : e.kind = "read")) = 1
                /\ Len(trim) = 3
                /\ cal = heap[store]
                /\ Triple(heap[store]) = <<Adjustment256(trim[1]), Adjustment256(trim[2]),
                                           Adjustment256(trim[3])>>)
    /\ [][(store' # store \/ heap' # heap) =>
            /\ seq = "ConfigureContinuousRead"
            /\ seq' = "Ready"
            /\ trim' = trim
            /\ store' \in DOMAIN heap'
            /\ \A i \in DOMAIN heap : heap'[i] = heap[i]]_vars

\* A reinitialization failed after its trim bytes were read: nothing is
\* returned and the store still holds the MagCal of the first run, whose trim
\* bytes differ from the ones just read.
C14_Witness ==
    /\ seq = "Failed"
    /\ initErr.step \in {"PowerDown2", "SetMode", "ConfigureContinuousRead"}
    /\ Len(trim) = 3
    /\ cal = NoCal
    /\ runs = 2
    /\ store = 1
    /\ heap = <<MagCalOf(<<128, 128, 128>>)>>
    /\ trim = <<255, 1, 0>>

----------------------------------------------------------------------------
(* Properties of the sensitivity adjustment. *)

\* C15: for every trim byte t in 0..255 the factor is (t - 128)/256 + 1, that
\* is (t + 128)/256: 1.0 at t = 128, 0.5 at t = 0, 383/256 at t = 255, strictly
\* increasing in t and always within [0.5, 383/256] (factors in units of
\* 1/256).  The MagCal of a triple carries the factor of each byte on its own
\* axis, and a run that reads the trim bytes [128, 128, 128] returns
\* {1.0, 1.0, 1.0}.
C15_AdjustmentFormula ==
    /\ \A t \in 0..255 :
          /\ Adjustment256(t) = t + 128
          /\ Adjustment256(t) >= 128 /\ Adjustment256(t) <= 383
          /\ t < 255 => Adjustment256(t) < Adjustment256(t + 1)
    /\ Adjustment256(128) = 256
    /\ Adjustment256(0) = 128
    /\ Adjustment256(255) = 383
    /\ fout # NoOutput =>
          Triple(fout[1]) = <<fin.a[1] + 128, fin.a[2] + 128, fin.a[3] + 128>>
    /\ (seq = "Ready" /\ trim = <<128, 128, 128>>) => Triple(cal) = <<256, 256, 256>>
    /\ seq = "Ready" => Triple(cal) = <<trim[1] + 128, trim[2] + 128, trim[3] + 128>>

\* The function applied to the triple [0, 255, 128]: 0.5, 383/256 and 1.0.
C15_Witness ==
    /\ fin = [f |-> "MagCalOf", a |-> <<0, 255, 128>>]
    /\ fout = <<[x |-> 128, y |-> 383, z |-> 256]>>

----------------------------------------------------------------------------
(* Properties of the scaling. *)

\* C16: scaling never overflows: for every raw count of the int16 range, every
\* factor and every gain the result is the mathematical product, truncated,
\* without wrap-around; for the HMC5983, the int16 returned for counts and
\* lsbPerGauss is counts * 1000 / lsbPerGauss truncated, for every counts and
\* every gain code 0..7.
C16_NoOverflow ==
    /\ (fin.f = "CountsToMicroTesla10" /\ fout # NoOutput) =>
            fout[1] = TruncDiv(fin.a[1] * 1000, fin.a[2])
    /\ (fin.f = "ScaleAxis" /\ fout # NoOutput) =>
            fout[1] = TruncDiv(fin.a[1] * fin.a[2] * GainConstant(fin.a[3]), 512)

\* The result of scaling raw alone on axis i, the other axes at rest.
AloneOnAxis(raw, i) == [j \in 1..3 |-> IF j = i THEN raw[i] ELSE 0]

\* C17: a raw count of 0 on an axis scales to 0 on that axis, whatever the
\* calibration factor and the gain selection, and the scaled value of an axis
\* is the one obtained when the other two axes read 0: no axis affects another
\* one.  For every result of CountsToMicroTesla10, Sense and the MPU9250
\* scaling.
C17_ZeroAndIndependentAxes ==
    /\ \A l \in LsbInputs : CountsToMicroTesla10(0, l) = {0}
    /\ \A c \in FactorInputs, sc \in {0, 1} : ScaleAxis(0, c, sc) = 0
    /\ (fin.f = "Sense" /\ fout # NoOutput) =>
            \A i \in 1..3 :
                /\ fin.a[1][i] = 0 => fout[1][i] = 0
                /\ \E o \in SenseScale(DevOf(fin.a[2]), AloneOnAxis(fin.a[1], i)) :
                        /\ o[i] = fout[1][i]
                        /\ \A j \in 1..3 : j # i => o[j] = 0
    /\ (fin.f = "ScaledSample" /\ fout # NoOutput) =>
            \A i \in 1..3 :
                /\ fin.a[1][i] = 0 => fout[1][i] = 0
                /\ fout[1][i] =
                      ScaledSample(AloneOnAxis(fin.a[1], i), fin.a[2], fin.a[3])[i]

\* Sense applied to (0, 100, -100) at gain code 7: X stays 0 while Y and Z
\* are scaled with their own factors.
C17_Witness ==
    /\ fin = [f |-> "Sense", a |-> <<<<0, 100, -100>>, 7>>]
    /\ fout = <<<<0, 434, -487>>>>

----------------------------------------------------------------------------
(* Properties of the modes written to the magnetometer. *)

\* A write to the control register CNTL.
IsCntlWrite(e) == e.kind = "write" /\ e.reg = "CNTL"

\* C18: in every run, complete or failed, after the write of the fuse-ROM
\* access mode (0x0F) a write of any mode other than power-down (0x00) to CNTL
\* is issued only after a power-down write that succeeded: the SetMode write of
\* (scale << 4) | mode is never issued while the device is still in fuse mode.
C18_PowerDownBeforeMode ==
    LET o == Ops(log)
    IN  \A i, j \in DOMAIN o :
            (i < j /\ IsCntlWrite(o[i]) /\ o[i].val = 15
                   /\ IsCntlWrite(o[j]) /\ o[j].val # 0) =>
                \E k \in (i + 1)..(j - 1) :
                    IsCntlWrite(o[k]) /\ o[k].val = 0 /\ o[k].err = "nil"

\* The SetMode write of 0x16 was issued after the fuse mode had been written.
C18_Witness ==
    LET o == Ops(log)
    IN  /\ Len(o) >= 6
        /\ IsCntlWrite(o[3]) /\ o[3].val = 15
        /\ IsCntlWrite(o[6]) /\ o[6].val = 22
        /\ visited[Len(visited) - 1] = "SetMode"

\* The CNTL writes of a log, in order.
CntlWrites(l) == SelectSeq(l, IsCntlWrite)

\* The mode bits (low nibble) of the last value written to CNTL.
LastModeWritten == CntlWrites(log)[Len(CntlWrites(log))].val % 16

\* C19 as stated: whenever the sequencer is in Ready, the last value written to
\* the control register selects a continuous measurement mode.
C19_Original == seq = "Ready" => LastModeWritten \in ContinuousModes

\* C19 amended: whenever the sequencer is in Ready, the last value written to
\* the control register is the SetMode value (scale << 4) | mode of the
\* configuration: its mode bits are the configured mode, one of the seven valid
\* modes, and its resolution bit is the configured scale; so the magnetometer
\* samples continuously exactly when the configured mode is 0x02 or 0x06.
C19_ModeAsConfigured ==
    seq = "Ready" =>
        LET w == CntlWrites(log)
        IN  /\ Len(w) = 4
            /\ w[4] = Ops(log)[6]
            /\ w[4].err = "nil"
            /\ w[4].val % 16 = cfg.MagMode
            /\ w[4].val \div 16 = cfg.MagScale
            /\ cfg.MagMode \in ValidModes
            /\ LastModeWritten \in ContinuousModes <=> cfg.MagMode \in ContinuousModes

\* An accepted configuration with the single-measurement mode: Ready, with
\* 0x11 as the last value written.
C19_Witness ==
    /\ seq = "Ready"
    /\ cfg.MagMode = 1
    /\ cfg.MagScale = 1
    /\ CntlWrites(log)[4].val = 17
    /\ LastModeWritten \notin ContinuousModes

\* A read request that the transport failed, and a call on the Dev that
\* returned an error.
FailedRead(r) == r.req \in {"readScaled", "status"} /\ r.tx \in TransportErrors
FailedCall(r) == r.fn \in {"SenseRaw", "Sense", "Status", "ID"} /\ r.err # "nil"

\* A sample read that the transport serves.
ReadScaledOk == ReadScaled /\ reply'.res = "ok" /\ Len(reply'.val) = 3

\* C20: a read of a Ready session that the transport fails is answered with
\* the transport's error itself and no values after the one failed operation;
\* the step leaves the session in Ready with its calibration and effective
\* parameters as they were, and a successful sample read is still possible.
\* SenseRaw, Sense, Status and ID of the HMC5983 answer a failed transaction
\* with zero values and the error of that transaction, after that one
\* transaction, the Dev unchanged.
C20_ReadFailureReturned ==
    /\ [](/\ FailedRead(reply) =>
               /\ reply.res = reply.tx
               /\ reply.val = <<>>
               /\ reply.ops = 1
               /\ reply.at = "Ready"
               /\ (seq = "Ready" => ENABLED ReadScaledOk)
          /\ FailedCall(hRet) =>
               /\ \A i \in DOMAIN hRet.vals : hRet.vals[i] = 0
               /\ Len(hRet.vals) = (IF hRet.fn = "Status" THEN 1 ELSE 3)
               /\ Len(hBus) = 1
               /\ hRet.err = hBus[1].err)
    /\ [][/\ (FailedRead(reply') /\ reply' # reply) =>
               /\ seq' = "Ready"
               /\ UNCHANGED <<seq, eff, cal, heap, store>>
          /\ (FailedCall(hRet') /\ hRet' # hRet) => UNCHANGED hDev]_vars

\* A sample read failed by the transport in a session that reached Ready a
\* second time.
C20_Witness ==
    /\ FailedRead(reply)
    /\ reply.req = "readScaled"
    /\ reply.res = "NACK"
    /\ seq = "Ready"
    /\ store # Nil
    /\ runs = MaxRuns

\* Sense answering a failed transaction.
C20_FailedSense ==
    /\ FailedCall(hRet)
    /\ hRet.fn = "Sense"
    /\ hRet.vals = <<0, 0, 0>>
    /\ hRet.err = "NACK"

----------------------------------------------------------------------------
(* Properties of a running initialization. *)

\* The states of the seven steps.
StepStates == {"Reset", "PowerDown1", "FuseMode", "ReadCalibration", "PowerDown2",
               "SetMode", "ConfigureContinuousRead"}

\* A run of InitMag has issued its first transport operation and has reached
\* neither Ready nor Failed.
Running == seq \in StepStates /\ Len(log) > 0

ExpectedWait(p, i) ==
    IF StepOrder[i] = "ReadCalibration"
    THEN [kind |-> "wait", reg |-> "read", val |-> p.readDelay, err |-> "nil"]
    ELSE [kind |-> "wait", reg |-> "write", val |-> p.writeDelay, err |-> "nil"]

\* The operations and settle waits of a complete run, as the parameters alone
\* determine them.
ReadyLog(p) ==
    [i \in 1..14 |-> IF i % 2 = 1 THEN ExpectedOps(p)[(i + 1) \div 2]
                     ELSE ExpectedWait(p, i \div 2)]

\* C22: as long as the transport has not failed, the operations and settle
\* waits of a run are the beginning of one sequence determined by the
\* effective parameters alone, whatever trim bytes ReadCalibration returned:
\* two runs with the same parameters and different trim bytes have the same
\* log.  ReadCalibration can return any trim bytes and each leads to
\* PowerDown2; a run whose operations all succeeded is in Ready exactly when
\* its log is the whole sequence, and the MagCal it returns is the one of its
\* trim bytes.
C22_NoBranchOnContent ==
    /\ (resolved = "ok" /\ \A i \in DOMAIN log : log[i].err = "nil") =>
            /\ Len(log) <= 14
            /\ log = SubSeq(ReadyLog(eff), 1, Len(log))
            /\ (Len(log) = 14) <=> (seq = "Ready")
    /\ seq = "ReadCalibration" =>
            \A b \in TrimInputs :
                ENABLED (StepReadCalibration /\ trim' = b /\ seq' = "PowerDown2")
    /\ seq = "Ready" => cal = MagCalOf(trim) /\ heap[store] = cal

\* A session whose two runs both reached Ready with different trim bytes: the
\* MagCals stored by the two runs differ and the log is the one of the
\* parameters.
C22_Witness ==
    /\ seq = "Ready"
    /\ runs = 2
    /\ prev.seq = "Ready"
    /\ Len(heap) = 2
    /\ heap[1] # heap[2]
    /\ trim = <<128, 128, 128>>
    /\ log = ReadyLog(eff)

----------------------------------------------------------------------------
(* Properties of the effective parameters. *)

\* The fields that do not depend on an override are in their ranges.
OtherFieldsOk(p) ==
    /\ p.scale \in {0, 1}
    /\ p.mode \in {0, 1, 2, 4, 6, 8, 15}
    /\ p.sampleRateDivider \in 0..15

\* The parameters, once produced, stay as they are in every step.
ParamsNeverChange == [][eff # NoParams => eff' = eff]_vars

\* As stated: the delays within the ranges of the standard set, with or
\* without an override.
C23_Original ==
    /\ [](eff # NoParams =>
            /\ eff.writeDelay >= 1 /\ eff.writeDelay <= 200
            /\ eff.readDelay >= 1 /\ eff.readDelay <= 50
            /\ OtherFieldsOk(eff))
    /\ ParamsNeverChange

\* C23: the effective parameters the Resolver produces have scale in {0,1},
\* mode in the valid-mode set and sampleRateDivider in 0..15; writeDelay is in
\* [1,200] ms when no write override is set and in [1,500] ms when one is set
\* (then at least 50 ms unless unsafe is true); readDelay is in [1,50] ms when
\* no read override is set and in [1,100] ms when one is set.  Once produced
\* they are never changed: no step of the sequencer, failure, reinitialization
\* or request modifies a field.
C23_RangesAndImmutable ==
    /\ [](eff # NoParams =>
            /\ IF OverrideSet(cfg.RegisterDebugMagWriteDelay)
               THEN /\ eff.writeDelay >= 1 /\ eff.writeDelay <= 500
                    /\ eff.writeDelay >= 50 \/ cfg.RegisterDebugMagUnsafeMode
               ELSE eff.writeDelay >= 1 /\ eff.writeDelay <= 200
            /\ IF OverrideSet(cfg.RegisterDebugMagReadDelay)
               THEN eff.readDelay >= 1 /\ eff.readDelay <= 100
               ELSE eff.readDelay >= 1 /\ eff.readDelay <= 50
            /\ OtherFieldsOk(eff))
    /\ ParamsNeverChange

\* A session resolved with the longest overrides that was reinitialized after
\* a failure and has answered a sample read in Ready: the parameters are still
\* those the Resolver produced.
C23_Witness ==
    /\ eff = [writeDelay |-> 500, readDelay |-> 100, scale |-> 1, mode |-> 6,
              sampleRateDivider |-> 1]
    /\ seq = "Ready"
    /\ runs = 2
    /\ prev.seq = "Failed"
    /\ reply.req = "readScaled"
    /\ reply.res = "ok"

----------------------------------------------------------------------------
(* Properties of the sessions of an IMUManager. *)

\* What a session consists of: the state of its sequencer, its parameters and
\* the calibration stored for it.
SessionView(s, h) ==
    [seq |-> s.seq, eff |-> s.eff, cal |-> IF s.cal = Nil THEN NoCal ELSE h[s.cal]]

\* A step of Init on one IMU (the call of Init begins with the left one).
OnLeft == mgr.pc \in {"idle", "left"}
OnRight == mgr.pc \in {"between", "right"}

\* InitMag on one IMU leaves the session of the other IMU as it is.
SessionsIndependent ==
    /\ OnLeft => SessionView(mgr'.right, mgr'.heap) = SessionView(mgr.right, mgr.heap)
    /\ OnRight => SessionView(mgr'.left, mgr'.heap) = SessionView(mgr.left, mgr.heap)

\* A run of InitMag begins on the session that s becomes u.
RunBegins(s, u) == s.seq \in {"Idle", "Ready", "Failed"} /\ u.seq \notin {"Idle", "Ready", "Failed"}

\* A run of InitMag on a session begins by dropping the calibration stored for
\* it, and a run that reaches Ready stores a MagCal of its own trim bytes.
PreviousDiscarded ==
    \A d \in {"left", "right"} :
        /\ RunBegins(mgr[d], mgr'[d]) => mgr'[d].cal = Nil
        /\ (mgr[d].seq # "Ready" /\ mgr'[d].seq = "Ready") =>
              /\ mgr'[d].cal \notin DOMAIN mgr.heap
              /\ mgr'.heap[mgr'[d].cal] = MagCalOf(mgr'[d].trim)

\* C24: the sessions of the two IMUs are independent (initializing, failing or
\* reinitializing one changes neither the sequencer state nor the parameters
\* nor the stored calibration of the other) and a reinitialization discards
\* the calibration stored for its session before.
C24_IndependentAndDiscarded ==
    [][mgr # NoMgr => SessionsIndependent /\ PreviousDiscarded]_vars

\* The part that holds: independence, and a calibration of its own for every
\* run that reaches Ready.
C24_IndependentSessions ==
    [][mgr # NoMgr =>
          /\ SessionsIndependent
          /\ \A d \in {"left", "right"} :
                (mgr[d].seq # "Ready" /\ mgr'[d].seq = "Ready") =>
                    /\ mgr'[d].cal \notin DOMAIN mgr.heap
                    /\ mgr'.heap[mgr'[d].cal] = MagCalOf(mgr'[d].trim)]_vars

\* The second Init failed on the right IMU in FuseMode after the left one was
\* reinitialized: the left session is Ready with its new calibration, the
\* right one still has the MagCal of the first Init.
C24_RightFailedLeftReady ==
    /\ mgr # NoMgr
    /\ mgr.calls = 2
    /\ mgr.pc = "idle"
    /\ mgr.left.seq = "Ready"
    /\ mgr.right.seq = "Failed"
    /\ mgr.right.err.step = "FuseMode"
    /\ mgr.left.cal = 3
    /\ mgr.right.cal = 2

----------------------------------------------------------------------------
(* Termination of a run. *)

\* No state is entered twice in the current run.
NoStateTwice == \A i, j \in DOMAIN visited : visited[i] = visited[j] => i = j

\* C25: every run of InitMag terminates.  A run issues at most seven transport
\* operations and enters no state twice, so it never returns to a step it
\* has left; and when every transport call returns and every settle wait
\* elapses, a run that is in one of the seven steps eventually is in Ready or
\* Failed.
C25_RunTerminates ==
    /\ [](/\ Len(Ops(log)) <= 7
          /\ Len(visited) <= 9
          /\ NoStateTwice
          /\ seq = visited[Len(visited)])
    /\ (seq \in StepStates) ~> (seq \in {"Ready", "Failed"})

\* The second run of a session has ended after all seven steps, the first one
\* after a failure in its fourth step.
C25_Witness ==
    /\ seq = "Ready"
    /\ runs = 2
    /\ prev = [seq |-> "Failed", step |-> "ReadCalibration"]
    /\ Len(Ops(log)) = 7
    /\ Len(visited) = 9

----------------------------------------------------------------------------
(* Properties of the HMC5983 driver. *)

\* C26: New issues its transactions in the order CRA (0x00), CRB (0x01), MODE
\* (0x02), one write of two bytes to each and no read.  A failed write is the
\* last transaction: New returns its error and no Dev, the remaining writes
\* are not issued and none is repeated.  A Dev is returned only after all
\* three writes succeeded, and only New returns one.
C26_NewWritesInOrder ==
    /\ hRet.fn = "none" => hDev = NoDev /\ hBus = <<>>
    /\ hRet.fn = "New" =>
          /\ Len(hBus) \in 1..3
          /\ \A i \in DOMAIN hBus :
                /\ Len(hBus[i].w) = 2
                /\ hBus[i].w[1] = <<0, 1, 2>>[i]
                /\ hBus[i].n = 0
                /\ i < Len(hBus) => hBus[i].err = "nil"
          /\ hRet.err = hBus[Len(hBus)].err
          /\ hRet.err # "nil" => hDev = NoDev
          /\ hRet.err = "nil" => Len(hBus) = 3 /\ hDev # NoDev
          /\ hBus[1].w[2] = CraOf(hOpts)
    /\ hDev # NoDev => hRet.fn # "none" /\ (hRet.fn = "New" => hRet.err = "nil")

\* New failed at the write of CRB: two transactions, no Dev.
C26_Witness ==
    /\ hRet = [fn |-> "New", vals |-> <<>>, err |-> "NACK"]
    /\ Len(hBus) = 2
    /\ hBus[1].err = "nil"
    /\ hBus[2].w[1] = regCRB
    /\ hBus[2].err = "NACK"
    /\ hDev = NoDev

\* New succeeded with 8-sample averaging at 75 Hz in single mode.
C26_NewSucceeded ==
    /\ hRet = [fn |-> "New", vals |-> <<>>, err |-> "nil"]
    /\ hDev # NoDev
    /\ hBus = <<Tx(<<regCRA, 120>>, 0, "nil"), Tx(<<regCRB, 224>>, 0, "nil"),
                Tx(<<regMODE, 1>>, 0, "nil")>>

\* The gain code New uses for the GainCode g of the Opts.
ExpectedCode(g) == IF g \in 0..7 THEN g ELSE 1

\* C27: for every GainCode of the Opts, negative ones and ones above 7
\* included, the byte New writes to CRB carries in bits 7..5 (and nowhere
\* else) the gain code that also selects the Dev's lsbPerGaXY and lsbPerGaZ
\* from the tables; the code is the GainCode when it is in 0..7 and 1
\* otherwise, so it is always an index of the tables, and a Sense result is
\* scaled with the table entries of that code.
C27_GainCodeConsistent ==
    LET code == ExpectedCode(hOpts.GainCode)
        d == [lsbPerGaXY |-> gainXY[code + 1], lsbPerGaZ |-> gainZ[code + 1]]
    IN  /\ (hRet.fn = "New" /\ Len(hBus) >= 2) =>
              /\ hBus[2].w[1] = regCRB
              /\ hBus[2].w[2] = 32 * code
              /\ hBus[2].w[2] \in 0..255
        /\ hDev # NoDev =>
              /\ code + 1 \in DOMAIN gainXY \cap DOMAIN gainZ
              /\ hDev.lsbPerGaXY = d.lsbPerGaXY
              /\ hDev.lsbPerGaZ = d.lsbPerGaZ
        /\ (hRet.fn = "Sense" /\ hRet.err = "nil") =>
              \E data \in DataInputs : hRet.vals \in SenseScale(d, RawOf(data))

\* New was given GainCode 8: it wrote code 1 to CRB and returned a Dev with the
\* factors of code 1.
C27_Witness ==
    /\ hOpts # NoOpts
    /\ hOpts.GainCode = 8
    /\ hRet = [fn |-> "New", vals |-> <<>>, err |-> "nil"]
    /\ hBus[2].w = <<1, 32>>
    /\ hDev.lsbPerGaXY = 1090
    /\ hDev.lsbPerGaZ = 980

\* New was given GainCode 7: code 7 in CRB and the last entries of the tables.
C27_HighestGain ==
    /\ hOpts # NoOpts
    /\ hOpts.GainCode = 7
    /\ hRet.fn = "New"
    /\ hBus[2].w = <<1, 224>>
    /\ hDev # NoDev
    /\ hDev.lsbPerGaXY = 230
    /\ hDev.lsbPerGaZ = 205

\* The signed 16-bit value whose high byte is b0 and whose low byte is b1.
BigEndian16(b0, b1) == (IF b0 >= 128 THEN b0 - 256 ELSE b0) * 256 + b1

\* X, Y, Z of a block of six bytes that holds X, Z, Y.
ExpectedRaw(data) ==
    <<BigEndian16(data[1], data[2]), BigEndian16(data[5], data[6]),
      BigEndian16(data[3], data[4])>>

\* C28: SenseRaw performs one block read of 6 bytes at the data register
\* (0x03) and returns X = the big-endian signed 16-bit value of bytes 0-1,
\* Y = that of bytes 4-5 and Z = that of bytes 2-3, whatever the six bytes are
\* (high bits set or not); Sense performs the same read and returns X and Y
\* scaled with lsbPerGaXY and Z scaled with lsbPerGaZ.
C28_SenseRawOrder ==
    /\ hRet.fn \in {"SenseRaw", "Sense"} =>
          /\ Len(hBus) = 1
          /\ hBus[1].w = <<3>>
          /\ hBus[1].n = 6
          /\ hRet.err = hBus[1].err
    /\ (hRet.fn = "SenseRaw" /\ hRet.err = "nil") =>
          /\ Len(hBus[1].r) = 6
          /\ hRet.vals = ExpectedRaw(hBus[1].r)
    /\ (hRet.fn = "Sense" /\ hRet.err = "nil") =>
          LET raw == ExpectedRaw(hBus[1].r)
          IN  /\ hRet.vals[1] \in CountsToMicroTesla10(raw[1], hDev.lsbPerGaXY)
              /\ hRet.vals[2] \in CountsToMicroTesla10(raw[2], hDev.lsbPerGaXY)
              /\ hRet.vals[3] \in CountsToMicroTesla10(raw[3], hDev.lsbPerGaZ)
    /\ (fin.f = "RawOf" /\ fout # NoOutput) =>
          /\ fout[1] = ExpectedRaw(fin.a)
          /\ \A i \in 1..3 : InInt16(fout[1][i])

\* SenseRaw on a block whose X has the high bit in the high byte only, whose Z
\* has it in both bytes and whose Y in neither.
C28_Witness ==
    /\ hRet.fn = "SenseRaw"
    /\ hRet.err = "nil"
    /\ hBus = <<TxRead(<<regDATA>>, <<128, 0, 255, 254, 1, 146>>)>>
    /\ hRet.vals = <<-32768, 402, -2>>

\* The conversion applied to bytes with all bits set in X, the high bit alone
\* in the low bytes of Z and Y.
C28_AllBitsSet ==
    /\ fin = [f |-> "RawOf", a |-> <<255, 255, 0, 128, 127, 128>>]
    /\ fout = << <<-1, 32640, 128>> >>

\* Sense at gain code 1 on X = 402, Z = 255, Y = -32768.
C28_SenseScaled ==
    /\ hRet.fn = "Sense"
    /\ hRet.err = "nil"
    /\ hBus[1].r = <<1, 146, 0, 255, 128, 0>>
    /\ hDev.lsbPerGaXY = 1090
    /\ hDev.lsbPerGaZ = 980
    /\ hRet.vals = <<368, -30062, 260>>

====
